---- MODULE Spec2Model ----
(***************************************************************************)
(* Model of .github/scripts/scan_workflows.py: the scan of the workflow    *)
(* files for the permission pattern, the SARIF report builder and the      *)
(* script's main block.  Text is modelled as sequences of one-character    *)
(* strings, so that the regular expression, str.find and str.split are     *)
(* computed character by character as the code computes them.              *)
(*                                                                         *)
(* The files hold ASCII text with line feeds as line ends (open(..., 'r')  *)
(* hands every other line end to the script as a line feed).  The report   *)
(* file is modelled by the sequence of tokens json.dump writes.  A failing *)
(* read or write is a step the environment can take at any open.          *)
(***************************************************************************)
EXTENDS Integers, Sequences, FiniteSets, TLC

\* ------------------------------------------------------------------ bounds
\* Largest number of text lines in the workflow files of the directory together.
MaxLines == 3

\* ------------------------------------------------------- text primitives
Uppercase == <<"A", "B", "C", "D", "E", "F", "G", "H", "I", "J", "K", "L", "M",
               "N", "O", "P", "Q", "R", "S", "T", "U", "V", "W", "X", "Y", "Z">>

Lowercase == <<"a", "b", "c", "d", "e", "f", "g", "h", "i", "j", "k", "l", "m",
               "n", "o", "p", "q", "r", "s", "t", "u", "v", "w", "x", "y", "z">>

\* The lower-case letter of every upper-case letter.
FoldMap ==
    [c \in {Uppercase[k] : k \in 1..26} |-> Lowercase[CHOOSE k \in 1..26 : Uppercase[k] = c]]

\* re.IGNORECASE compares characters after case folding.
Fold(c) == IF c \in DOMAIN FoldMap THEN FoldMap[c] ELSE c

\* The characters the class \s matches (a line never holds "\n").
Whitespace == {" ", "\t", "\r", "\f"}

\* The two literals of the pattern r'id-token\s*:\s*write'.
PatIdToken == <<"i", "d", "-", "t", "o", "k", "e", "n">>

PatWrite == <<"w", "r", "i", "t", "e">>

\* The argument of line.find(...).
FindNeedle == <<"i", "d", "-", "t", "o", "k", "e", "n">>

\* The argument of len(...) in the endColumn expression.
WidthLiteral == <<"i", "d", "-", "t", "o", "k", "e", "n", ":", " ", "w", "r", "i", "t", "e">>

\* lit occurs in line at the 1-based position p, compared as the regular
\* expression compares under re.IGNORECASE.
LitAtCI(line, p, lit) ==
    /\ p >= 1
    /\ p + Len(lit) - 1 <= Len(line)
    /\ \A k \in 1..Len(lit) : Fold(line[p + k - 1]) = Fold(lit[k])

\* lit occurs in line at the 1-based position p, compared exactly.
LitAt(line, p, lit) ==
    /\ p >= 1
    /\ p + Len(lit) - 1 <= Len(line)
    /\ \A k \in 1..Len(lit) : line[p + k - 1] = lit[k]

\* \s* from position p: the position of the first character at or after p
\* that is not whitespace (Len + 1 when there is none).  The character that
\* follows \s* in the pattern is never whitespace, so the greedy match is
\* the only one that can succeed.
RECURSIVE SkipWs(_, _)
SkipWs(line, p) ==
    IF p <= Len(line) /\ line[p] \in Whitespace
    THEN SkipWs(line, p + 1)
    ELSE p

\* The pattern matches with its first character at position p.
MatchAt(line, p) ==
    /\ LitAtCI(line, p, PatIdToken)
    /\ LET c == SkipWs(line, p + Len(PatIdToken))
       IN  /\ c <= Len(line)
           /\ line[c] = ":"
           /\ LitAtCI(line, SkipWs(line, c + 1), PatWrite)

\* The search without re.IGNORECASE: the letters are compared exactly.
re_search_exact(line) ==
    \E p \in 1..Len(line) :
        /\ LitAt(line, p, PatIdToken)
        /\ LET c == SkipWs(line, p + Len(PatIdToken))
           IN  /\ c <= Len(line)
               /\ line[c] = ":"
               /\ LitAt(line, SkipWs(line, c + 1), PatWrite)

\* The search with a pattern that stops after the colon.
re_search_prefix(line) ==
    \E p \in 1..Len(line) :
        /\ LitAtCI(line, p, PatIdToken)
        /\ LET c == SkipWs(line, p + Len(PatIdToken))
           IN  c <= Len(line) /\ line[c] = ":"

\* re.search(r'id-token\s*:\s*write', line, re.IGNORECASE) is not None
re_search(line) == \E p \in 1..Len(line) : MatchAt(line, p)

\* line.find(sub): the 0-based index of the first exact occurrence, or -1.
find(line, sub) ==
    IF \E p \in 1..Len(line) : LitAt(line, p, sub)
    THEN (CHOOSE p \in 1..Len(line) :
              /\ LitAt(line, p, sub)
              /\ \A q \in 1..(p - 1) : ~LitAt(line, q, sub)) - 1
    ELSE -1

\* The position of the first line feed at or after p (Len + 1 when there
\* is none).
RECURSIVE FirstLineFeed(_, _)
FirstLineFeed(content, p) ==
    IF p > Len(content) \/ content[p] = "\n" THEN p ELSE FirstLineFeed(content, p + 1)

\* content.split('\n'): the pieces between the line feeds; n + 1 pieces for
\* n line feeds, the last piece being what follows the last line feed.
RECURSIVE split(_)
split(content) ==
    LET p == FirstLineFeed(content, 1)
    IN  IF p <= Len(content)
        THEN <<SubSeq(content, 1, p - 1)>> \o split(SubSeq(content, p + 1, Len(content)))
        ELSE <<content>>

\* ------------------------------------------------------------ environment
\* The lines the workflow files are written with: the pattern with the
\* canonical spelling shifted right and much whitespace, in capitals, twice
\* in one line with mixed case and a tab, and a line that stops short of a match.
LineLowerWide == <<" ", " ", "i", "d", "-", "t", "o", "k", "e", "n", ":", " ", " ", " ", "W", "R", "I", "T", "E">>

LineUpper == <<" ", "I", "D", "-", "T", "O", "K", "E", "N", ":", " ", "w", "r", "i", "t", "e">>

LineTwice == <<"I", "d", "-", "T", "o", "k", "e", "n", "\t", ":", "w", "r", "i", "t", "e", " ", "#", " ", "i", "d", "-", "t", "o", "k", "e", "n", ":", " ", "w", "r", "i", "t", "e">>

LineRead == <<"i", "d", "-", "t", "o", "k", "e", "n", ":", " ", "r", "e", "a", "d">>

LinePool == {LineLowerWide, LineUpper, LineTwice, LineRead}

\* The names an entry of the directory can have: a workflow file of either
\* extension, and a file the globs do not select.
FileNames == {[stem |-> "deploy", ext |-> "yml"], [stem |-> "release", ext |-> "yaml"],
              [stem |-> "notes", ext |-> "txt"]}

\* The lists of at most b lines.
LineLists(b) == UNION {[1..k -> LinePool] : k \in 0..b}

\* The lines an entry can hold when b lines are left to the workflow
\* files: notes.txt always holds one line with the pattern.
EntryLines(name, b) ==
    IF name.ext \in {"yml", "yaml"} THEN LineLists(b) ELSE {<<LineLowerWide>>}

\* The lines of a workflow file count, those of notes.txt do not.
Cost(name, ls) == IF name.ext \in {"yml", "yaml"} THEN Len(ls) ELSE 0

\* The text of a file whose lines are ls, each ended by a line feed.
RECURSIVE Text(_)
Text(ls) == IF ls = <<>> THEN <<>> ELSE Head(ls) \o <<"\n">> \o Text(Tail(ls))

\* The directories of the entries named by names, in that order, whose
\* workflow files hold at most b lines together.
RECURSIVE Directories(_, _)
Directories(names, b) ==
    IF names = <<>> THEN {<<>>}
    ELSE UNION {{<<[stem |-> Head(names).stem, ext |-> Head(names).ext, content |-> Text(ls)]>> \o rest :
                    rest \in Directories(Tail(names), b - Cost(Head(names), ls))} :
                ls \in EntryLines(Head(names), b)}

\* The orders in which the operating system can list the entries.
NameOrders ==
    {ns \in UNION {[1..n -> FileNames] : n \in 0..Cardinality(FileNames)} :
        \A i, j \in 1..Len(ns) : i # j => ns[i] # ns[j]}

Listings == UNION {Directories(ns, MaxLines) : ns \in NameOrders}

\* What results.sarif can hold before the first run: nothing, or the report
\* of some earlier tool.
NoReport == [exists |-> FALSE, text |-> <<>>]

StaleReport == [exists |-> TRUE, text |-> <<"{", "stale", "}">>]

\* ------------------------------------------------------------------ state
VARIABLES
    dirExists,    \* Path(".github/workflows").exists()
    listing,      \* the entries of the directory, in the order the system lists them
    resultsFile,  \* the file results.sarif
    pc,           \* the position of the script
    run,          \* "first" or "second" invocation of the script
    files,        \* the list the for loop of scan_workflows iterates over
    idx,          \* the position of the for loop in files
    scanIssues,   \* the local list issues of scan_workflows
    issues,       \* the variable issues of the main block
    sarif,        \* the variable sarif of the main block (empty while unbound)
    stdout,       \* the lines printed
    exitStatus,   \* the exit status of the process (-1 while it runs)
    opened,       \* the calls of open(..., 'r') in this run: the path, and whether it raised
    writes,       \* the number of completed json.dump calls in this run
    startReport,  \* results.sarif as it was when this run started
    firstRun      \* the outcome of the first run, once the second has started

vars == <<dirExists, listing, resultsFile, pc, run, files, idx, scanIssues, issues,
          sarif, stdout, exitStatus, opened, writes, startReport, firstRun>>

\* ---------------------------------------------------------------- scanner
WorkflowDir == ".github/workflows"

RuleId == "github-actions/id-token-write"

MessageText == "Workflow uses 'id-token: write' permission which allows requesting OIDC tokens."

\* str(workflow_dir / name): the path glob returns for an entry, which
\* str(Path(workflow_file).relative_to('.')) leaves as it is.
rel_path(f) == WorkflowDir \o "/" \o f.stem \o "." \o f.ext

\* glob.glob(str(workflow_dir / "*.<ext>")): the entries whose name ends
\* with the extension, in the order the system lists them.
glob(ext) == SelectSeq(listing, LAMBDA f : f.ext = ext)

\* The two globs concatenated the other way round.
workflow_files_yaml_first == glob("yaml") \o glob("yml")

\* glob.glob(... "*.yml") + glob.glob(... "*.yaml")
workflow_files == glob("yml") \o glob("yaml")

\* The column of a finding: find, then the fallback or the shift to 1-based.
start_column(line) ==
    LET col == find(line, FindNeedle)
    IN  IF col = -1 THEN 1 ELSE col + 1

\* The end column with the width 16.
end_column_16(col) == col + 16

\* col + len("id-token: write")
end_column(col) == col + Len(WidthLiteral)

\* The dictionary built for a matching line.
make_issue(path, line_num, line) ==
    [ruleId    |-> RuleId,
     ruleIndex |-> 0,
     level     |-> "error",
     message   |-> [text |-> MessageText],
     locations |-> <<[physicalLocation |->
                        [artifactLocation |-> [uri |-> path],
                         region |-> [startLine   |-> line_num,
                                     startColumn |-> start_column(line),
                                     endLine     |-> line_num,
                                     endColumn   |-> end_column(start_column(line))]]]>>]

\* The body of the loop over enumerate(lines, start=1), from line_num on:
\* the issues appended for the lines line_num, line_num + 1, ...
RECURSIVE scan_lines(_, _, _)
scan_lines(path, lines, line_num) ==
    IF line_num > Len(lines) THEN <<>>
    ELSE (IF re_search(lines[line_num])
          THEN <<make_issue(path, line_num, lines[line_num])>>
          ELSE <<>>) \o scan_lines(path, lines, line_num + 1)

\* The body of the loop over the files, for one file that could be read.
scan_file(f) == scan_lines(rel_path(f), split(f.content), 1)

\* --------------------------------------------------------- report builder
SchemaUri == "https://raw.githubusercontent.com/oasis-tcs/sarif-spec/master/Schemata/sarif-schema-2.1.0.json"

\* The rule under an id the findings do not use.
RuleRenamed ==
    [id |-> "github-actions/id-token",
     name |-> "id-token: write permission detected",
     shortDescription |-> [text |-> "Workflow uses id-token: write permission"],
     fullDescription |-> [text |-> "Detects when a workflow uses id-token: write permission, which allows the workflow to request OIDC tokens."],
     defaultConfiguration |-> [level |-> "error"],
     properties |-> [tags |-> <<"security", "github-actions">>]]

\* The single rule of the driver.
Rule ==
    [id |-> RuleId,
     name |-> "id-token: write permission detected",
     shortDescription |-> [text |-> "Workflow uses id-token: write permission"],
     fullDescription |-> [text |-> "Detects when a workflow uses id-token: write permission, which allows the workflow to request OIDC tokens."],
     defaultConfiguration |-> [level |-> "error"],
     properties |-> [tags |-> <<"security", "github-actions">>]]

\* generate_sarif(issues); the key "$schema" is the field schema.
generate_sarif(iss) ==
    [version |-> "2.1.0",
     schema  |-> SchemaUri,
     runs    |-> <<[tool |-> [driver |-> [name |-> "Workflow Security Scanner",
                                          version |-> "1.0.0",
                                          rules |-> <<Rule>>]],
                    results |-> iss]>>]

\* json.dump of one result: its keys and values in insertion order.
dump_issue(i) ==
    LET loc == i.locations[1].physicalLocation
    IN  <<"{", "ruleId", i.ruleId, "ruleIndex", ToString(i.ruleIndex), "level", i.level,
          "message", "{", "text", i.message.text, "}",
          "locations", "[", "{", "physicalLocation", "{",
          "artifactLocation", "{", "uri", loc.artifactLocation.uri, "}",
          "region", "{", "startLine", ToString(loc.region.startLine),
          "startColumn", ToString(loc.region.startColumn),
          "endLine", ToString(loc.region.endLine),
          "endColumn", ToString(loc.region.endColumn), "}", "}", "}", "]", "}">>

RECURSIVE dump_issues(_)
dump_issues(iss) ==
    IF iss = <<>> THEN <<>> ELSE dump_issue(Head(iss)) \o dump_issues(Tail(iss))

dump_rule(r) ==
    <<"{", "id", r.id, "name", r.name,
      "shortDescription", "{", "text", r.shortDescription.text, "}",
      "fullDescription", "{", "text", r.fullDescription.text, "}",
      "defaultConfiguration", "{", "level", r.defaultConfiguration.level, "}",
      "properties", "{", "tags", "[">> \o r.properties.tags \o <<"]", "}", "}">>

RECURSIVE dump_rules(_)
dump_rules(rs) ==
    IF rs = <<>> THEN <<>> ELSE dump_rule(Head(rs)) \o dump_rules(Tail(rs))

\* json.dump(sarif, f, indent=2): the text written, as its sequence of
\* tokens (punctuation, keys and values in the order the dictionary holds them).
json_dump(doc) ==
    LET r == doc.runs[1]
    IN  <<"{", "version", doc.version, "$schema", doc.schema, "runs", "[", "{",
          "tool", "{", "driver", "{", "name", r.tool.driver.name,
          "version", r.tool.driver.version, "rules", "[">>
        \o dump_rules(r.tool.driver.rules)
        \o <<"]", "}", "}", "results", "[">>
        \o dump_issues(r.results)
        \o <<"]", "}", "]", "}">>

\* The file opened with "a": the dump is added to what the file held.
write_text_append(old, text) == [exists |-> TRUE, text |-> old.text \o text]

\* What open("results.sarif", "w") followed by the dump leaves in the file.
write_text(old, text) == [exists |-> TRUE, text |-> text]

\* ---------------------------------------------------------------- actions
NoRun == [exitStatus |-> -1, report |-> NoReport]

Init ==
    /\ dirExists \in BOOLEAN
    /\ listing \in (IF dirExists THEN Listings ELSE {<<>>})
    /\ resultsFile \in {NoReport, StaleReport}
    /\ pc = "start"
    /\ run = "first"
    /\ files = <<>>
    /\ idx = 1
    /\ scanIssues = <<>>
    /\ issues = <<>>
    /\ sarif = <<>>
    /\ stdout = <<>>
    /\ exitStatus = -1
    /\ opened = <<>>
    /\ writes = 0
    /\ startReport = resultsFile
    /\ firstRun = NoRun

\* The scan raising when the directory is absent.
DirMissingRaises ==
    /\ pc = "start"
    /\ ~dirExists
    /\ exitStatus' = 1
    /\ pc' = "raised_read"
    /\ UNCHANGED <<dirExists, listing, resultsFile, run, files, idx, scanIssues, issues,
                   sarif, stdout, opened, writes, startReport, firstRun>>

\* scan_workflows, the directory is absent: return issues (still empty).
DirMissing ==
    /\ pc = "start"
    /\ ~dirExists
    /\ issues' = <<>>
    /\ pc' = "main"
    /\ UNCHANGED <<dirExists, listing, resultsFile, run, files, idx, scanIssues, sarif,
                   stdout, exitStatus, opened, writes, startReport, firstRun>>

\* scan_workflows, the directory exists: the two globs are evaluated and
\* the loop over the files starts.
GlobFiles ==
    /\ pc = "start"
    /\ dirExists
    /\ files' = workflow_files
    /\ idx' = 1
    /\ scanIssues' = <<>>
    /\ pc' = "loop"
    /\ UNCHANGED <<dirExists, listing, resultsFile, run, issues, sarif, stdout,
                   exitStatus, opened, writes, startReport, firstRun>>

\* One iteration of the loop over the files: the file is opened, read,
\* split and scanned line by line, and closed.
ScanFile ==
    /\ pc = "loop"
    /\ idx <= Len(files)
    /\ opened' = Append(opened, [path |-> rel_path(files[idx]), raised |-> FALSE])
    /\ scanIssues' = scanIssues \o scan_file(files[idx])
    /\ idx' = idx + 1
    /\ UNCHANGED <<dirExists, listing, resultsFile, pc, run, files, issues, sarif,
                   stdout, exitStatus, writes, startReport, firstRun>>

\* The iteration with the exception caught: the file is skipped and the
\* loop goes on.
ReadErrorSkips ==
    /\ pc = "loop"
    /\ idx <= Len(files)
    /\ opened' = Append(opened, [path |-> rel_path(files[idx]), raised |-> TRUE])
    /\ idx' = idx + 1
    /\ UNCHANGED <<dirExists, listing, resultsFile, pc, run, files, scanIssues, issues,
                   sarif, stdout, exitStatus, writes, startReport, firstRun>>

\* One iteration of the loop in which open or read raises: nothing catches
\* the exception, the frame of scan_workflows is unwound with its list and
\* the interpreter ends the process with status 1.
ReadError ==
    /\ pc = "loop"
    /\ idx <= Len(files)
    /\ opened' = Append(opened, [path |-> rel_path(files[idx]), raised |-> TRUE])
    /\ scanIssues' = <<>>
    /\ exitStatus' = 1
    /\ pc' = "raised_read"
    /\ UNCHANGED <<dirExists, listing, resultsFile, run, files, idx, issues, sarif,
                   stdout, writes, startReport, firstRun>>

\* The loop is over: return issues, bound to issues in the main block.
ScanReturn ==
    /\ pc = "loop"
    /\ idx > Len(files)
    /\ issues' = scanIssues
    /\ pc' = "main"
    /\ UNCHANGED <<dirExists, listing, resultsFile, run, files, idx, scanIssues, sarif,
                   stdout, exitStatus, opened, writes, startReport, firstRun>>

\* if issues: print the count and build the report from issues.
ReportFound ==
    /\ pc = "main"
    /\ issues # <<>>
    /\ stdout' = Append(stdout, "Found " \o ToString(Len(issues)) \o " issue(s)")
    /\ sarif' = <<generate_sarif(issues)>>
    /\ pc' = "write"
    /\ UNCHANGED <<dirExists, listing, resultsFile, run, files, idx, scanIssues, issues,
                   exitStatus, opened, writes, startReport, firstRun>>

\* The else branch without a report: print, then exit.
ReportNoneNoFile ==
    /\ pc = "main"
    /\ issues = <<>>
    /\ stdout' = Append(stdout, "No issues found")
    /\ pc' = "written"
    /\ UNCHANGED <<dirExists, listing, resultsFile, run, files, idx, scanIssues, issues,
                   sarif, exitStatus, opened, writes, startReport, firstRun>>

\* else: print that there is none and build the report from [].
ReportNone ==
    /\ pc = "main"
    /\ issues = <<>>
    /\ stdout' = Append(stdout, "No issues found")
    /\ sarif' = <<generate_sarif(<<>>)>>
    /\ pc' = "write"
    /\ UNCHANGED <<dirExists, listing, resultsFile, run, files, idx, scanIssues, issues,
                   exitStatus, opened, writes, startReport, firstRun>>

\* with open("results.sarif", "w") as f: json.dump(sarif, f, indent=2)
WriteReport ==
    /\ pc = "write"
    /\ resultsFile' = write_text(resultsFile, json_dump(sarif[1]))
    /\ writes' = writes + 1
    /\ pc' = "written"
    /\ UNCHANGED <<dirExists, listing, run, files, idx, scanIssues, issues, sarif,
                   stdout, exitStatus, opened, startReport, firstRun>>

\* The same statement when it raises: open fails and the file is as it
\* was, or the file was truncated and the dump fails; status 1.
WriteError ==
    /\ pc = "write"
    /\ resultsFile' \in {resultsFile, [exists |-> TRUE, text |-> <<>>]}
    /\ exitStatus' = 1
    /\ pc' = "raised_write"
    /\ UNCHANGED <<dirExists, listing, run, files, idx, scanIssues, issues, sarif,
                   stdout, opened, writes, startReport, firstRun>>

\* The end of either branch: the first prints a second line; exit(0).
Exit ==
    /\ pc = "written"
    /\ stdout' = IF issues # <<>> THEN Append(stdout, "Generated results.sarif") ELSE stdout
    /\ exitStatus' = 0
    /\ pc' = "exited"
    /\ UNCHANGED <<dirExists, listing, resultsFile, run, files, idx, scanIssues, issues,
                   sarif, opened, writes, startReport, firstRun>>

Terminated == pc \in {"exited", "raised_read", "raised_write"}

\* The script is invoked a second time in the same working directory: a
\* new process, with the files as the first run left them.
Rerun ==
    /\ Terminated
    /\ run = "first"
    /\ run' = "second"
    /\ firstRun' = [exitStatus |-> exitStatus, report |-> resultsFile]
    /\ startReport' = resultsFile
    /\ pc' = "start"
    /\ files' = <<>>
    /\ idx' = 1
    /\ scanIssues' = <<>>
    /\ issues' = <<>>
    /\ sarif' = <<>>
    /\ stdout' = <<>>
    /\ exitStatus' = -1
    /\ opened' = <<>>
    /\ writes' = 0
    /\ UNCHANGED <<dirExists, listing, resultsFile>>

\* One invocation of the script.
Next ==
    \/ DirMissing
    \/ GlobFiles
    \/ ScanFile
    \/ ReadError
    \/ ScanReturn
    \/ ReportFound
    \/ ReportNone
    \/ WriteReport
    \/ WriteError
    \/ Exit

Spec == Init /\ [][Next]_vars

\* Two invocations in a fresh checkout that holds workflow files only.
InitTwice ==
    /\ Init
    /\ resultsFile = NoReport
    /\ \A k \in 1..Len(listing) : listing[k].ext \in {"yml", "yaml"}

NextTwice ==
    \/ DirMissing
    \/ GlobFiles
    \/ ScanFile
    \/ ReadError
    \/ ScanReturn
    \/ ReportFound
    \/ ReportNone
    \/ WriteReport
    \/ WriteError
    \/ Exit
    \/ Rerun

SpecTwice == InitTwice /\ [][NextTwice]_vars

TypeOK ==
    /\ pc \in {"start", "loop", "main", "write", "written", "exited", "raised_read", "raised_write"}
    /\ exitStatus \in {-1, 0, 1}
    /\ writes \in 0..1

\* ------------------------------------------------------------- properties
\* The vocabulary of the properties, stated without the scanner's operators.
IsWorkflow(f) == f.ext \in {"yml", "yaml"}

PathOf(f) == ".github/workflows/" \o f.stem \o "." \o f.ext

LinesOf(f) == split(f.content)

\* The pairs of a letter and the same letter in the other case.
CasePairs ==
    {<<Uppercase[k], Lowercase[k]>> : k \in 1..26} \cup {<<Lowercase[k], Uppercase[k]>> : k \in 1..26}

SameLetter(a, b) == a = b \/ <<a, b>> \in CasePairs

OccursCI(line, p, lit) ==
    /\ p + Len(lit) - 1 <= Len(line)
    /\ \A k \in 1..Len(lit) : SameLetter(line[p + k - 1], lit[k])

AllBlank(line, from, to) == \A q \in from..to : line[q] \in {" ", "\t", "\r", "\f"}

\* `id-token`, optional whitespace, `:`, optional whitespace, `write`, in
\* any letter case, somewhere in the line.
ContainsPattern(line) ==
    \E p \in 1..Len(line) :
        /\ OccursCI(line, p, <<"i", "d", "-", "t", "o", "k", "e", "n">>)
        /\ \E c \in (p + 8)..Len(line) :
              /\ line[c] = ":"
              /\ AllBlank(line, p + 8, c - 1)
              /\ \E w \in (c + 1)..Len(line) :
                    /\ AllBlank(line, c + 1, w - 1)
                    /\ OccursCI(line, w, <<"w", "r", "i", "t", "e">>)

\* The 1-based index of the first case-insensitive occurrence of id-token.
FirstIdToken(line) ==
    CHOOSE p \in 1..Len(line) :
        /\ OccursCI(line, p, <<"i", "d", "-", "t", "o", "k", "e", "n">>)
        /\ \A q \in 1..(p - 1) : ~OccursCI(line, q, <<"i", "d", "-", "t", "o", "k", "e", "n">>)

Uri(i) == i.locations[1].physicalLocation.artifactLocation.uri

Region(i) == i.locations[1].physicalLocation.region

\* The position in the listing of the file a finding names.
EntryOf(i) == CHOOSE e \in 1..Len(listing) : PathOf(listing[e]) = Uri(i)

\* The line a finding names.
LineOfFinding(i) == LinesOf(listing[EntryOf(i)])[Region(i).startLine]

\* The number of lines of a file that contain the pattern.
Matches(f) ==
    LET lines == LinesOf(f)
    IN  Cardinality({n \in 1..Len(lines) : ContainsPattern(lines[n])})

WorkflowEntries == {e \in 1..Len(listing) : IsWorkflow(listing[e])}

NoPatternAnywhere ==
    \A e \in WorkflowEntries :
        LET lines == LinesOf(listing[e])
        IN  \A n \in 1..Len(lines) : ~ContainsPattern(lines[n])

\* scan_workflows has returned to the main block.
ScanDone == pc \in {"main", "write", "written", "exited", "raised_write"}

\* The report has been written and the with block left.
Written == pc \in {"written", "exited"}

\* The tokens of the results array of a written report.
ResultsOf(text) ==
    LET r == CHOOSE q \in 1..Len(text) :
                 /\ text[q] = "results"
                 /\ \A q2 \in (q + 1)..Len(text) : text[q2] # "results"
    IN  SubSeq(text, r + 2, Len(text) - 4)

\* The findings with the given file and line.
FindingsAt(path, n) ==
    {k \in 1..Len(issues) : Uri(issues[k]) = path /\ Region(issues[k]).startLine = n}

\* C1: once the scan has returned, every line of a scanned workflow file
\* (of either extension) that contains the pattern, in any letter case and
\* however often, has exactly one finding, which carries the file's relative
\* path and the line's 1-based number.
C1_OneFindingPerMatchingLine ==
    ScanDone =>
        \A e \in WorkflowEntries :
            LET lines == LinesOf(listing[e])
            IN  \A n \in 1..Len(lines) :
                    ContainsPattern(lines[n])
                        => Cardinality(FindingsAt(PathOf(listing[e]), n)) = 1

C1_Witness ==
    /\ ScanDone
    /\ \E e1, e2 \in WorkflowEntries :
          /\ listing[e1].ext = "yml"
          /\ listing[e2].ext = "yaml"
          /\ Len(LinesOf(listing[e1])) >= 2
          /\ LinesOf(listing[e1])[2] = LineTwice
          /\ Cardinality(FindingsAt(".github/workflows/deploy.yml", 2)) = 1
          /\ LinesOf(listing[e2])[1] = LineUpper
          /\ Cardinality(FindingsAt(".github/workflows/release.yaml", 1)) = 1

\* C2: the startColumn of every finding is the 1-based index of the first
\* case-insensitive occurrence of id-token in the line the finding names.
C2_StartColumnFirstOccurrence ==
    \A k \in 1..Len(issues) :
        Region(issues[k]).startColumn = FirstIdToken(LineOfFinding(issues[k]))

\* C3 as stated: endColumn is startColumn + 16 for every finding, and the
\* line `  id-token:   WRITE` at line 3 of deploy.yml is reported at line 3,
\* column 3.
C3_EndColumnPlus16 ==
    /\ \A k \in 1..Len(issues) :
          Region(issues[k]).endColumn = Region(issues[k]).startColumn + 16
    /\ ScanDone =>
          \A e \in WorkflowEntries :
              (/\ PathOf(listing[e]) = ".github/workflows/deploy.yml"
               /\ Len(LinesOf(listing[e])) >= 3
               /\ LinesOf(listing[e])[3] = LineLowerWide)
              => \E k \in 1..Len(issues) :
                    /\ Uri(issues[k]) = ".github/workflows/deploy.yml"
                    /\ Region(issues[k]).startLine = 3
                    /\ Region(issues[k]).startColumn = 3
                    /\ Region(issues[k]).endColumn = 3 + 16

\* C3 amended: endColumn is startColumn + 15, the length of the literal
\* "id-token: write", for every finding and whatever whitespace the match
\* holds; the line `  id-token:   WRITE` at line 3 of deploy.yml is reported
\* at line 3 with startColumn 3 and endColumn 18.
C3_EndColumnPlus15 ==
    /\ \A k \in 1..Len(issues) :
          Region(issues[k]).endColumn = Region(issues[k]).startColumn + 15
    /\ ScanDone =>
          \A e \in WorkflowEntries :
              (/\ PathOf(listing[e]) = ".github/workflows/deploy.yml"
               /\ Len(LinesOf(listing[e])) >= 3
               /\ LinesOf(listing[e])[3] = LineLowerWide)
              => \E k \in 1..Len(issues) :
                    /\ Uri(issues[k]) = ".github/workflows/deploy.yml"
                    /\ Region(issues[k]).startLine = 3
                    /\ Region(issues[k]).startColumn = 3
                    /\ Region(issues[k]).endColumn = 18

C3_Witness ==
    /\ ScanDone
    /\ \E e \in WorkflowEntries :
          /\ PathOf(listing[e]) = ".github/workflows/deploy.yml"
          /\ Len(LinesOf(listing[e])) >= 3
          /\ LinesOf(listing[e])[3] = LineLowerWide
    /\ \E k \in 1..Len(issues) :
          /\ Uri(issues[k]) = ".github/workflows/deploy.yml"
          /\ Region(issues[k]).startLine = 3
          /\ Region(issues[k]).startColumn = 3
          /\ Region(issues[k]).endColumn = 18

\* C4: when no line of a scanned workflow file contains the pattern, the
\* list the scan returns is empty and the report written has an empty
\* results array; and no finding is ever emitted for a line that does not
\* contain the pattern.
C4_NoPatternNoFinding ==
    /\ ScanDone => (issues = <<>> \/ ~NoPatternAnywhere)
    /\ Written => ((resultsFile.exists /\ ResultsOf(resultsFile.text) = <<>>)
                      \/ ~NoPatternAnywhere)
    /\ \A k \in 1..Len(scanIssues) :
          \E e \in WorkflowEntries :
              /\ PathOf(listing[e]) = Uri(scanIssues[k])
              /\ LET lines == LinesOf(listing[e])
                     n == Region(scanIssues[k]).startLine
                 IN  n \in 1..Len(lines) /\ ContainsPattern(lines[n])

C4_Witness ==
    /\ pc = "exited"
    /\ NoPatternAnywhere
    /\ \E e \in WorkflowEntries : LinesOf(listing[e])[1] = LineRead
    /\ \E e \in 1..Len(listing) : ~IsWorkflow(listing[e])
    /\ ResultsOf(resultsFile.text) = <<>>

\* C5: when the directory does not exist, the scan opens no file and does
\* not raise, it returns the empty list, the report written has an empty
\* results array, and the process that ends after the write ends with
\* status 0; the step to the report is always possible.
C5_MissingDirectory ==
    ~dirExists =>
        /\ opened = <<>>
        /\ pc # "raised_read"
        /\ pc # "loop"
        /\ ScanDone => issues = <<>>
        /\ pc = "main" => ENABLED ReportNone
        /\ pc = "write" => ENABLED WriteReport
        /\ Written => (/\ writes = 1
                       /\ resultsFile.exists
                       /\ ResultsOf(resultsFile.text) = <<>>)
        /\ pc = "written" => ENABLED Exit
        /\ pc = "exited" => exitStatus = 0

C5_Witness ==
    /\ ~dirExists
    /\ pc = "exited"
    /\ exitStatus = 0
    /\ opened = <<>>
    /\ startReport = StaleReport
    /\ ResultsOf(resultsFile.text) = <<>>

\* The paths of the workflow files: those ending in .yml in the order of
\* the listing, then those ending in .yaml in the order of the listing.
RECURSIVE PathsWithExt(_, _)
PathsWithExt(entries, ext) ==
    IF entries = <<>> THEN <<>>
    ELSE (IF Head(entries).ext = ext THEN <<PathOf(Head(entries))>> ELSE <<>>)
         \o PathsWithExt(Tail(entries), ext)

EnumeratedPaths == PathsWithExt(listing, "yml") \o PathsWithExt(listing, "yaml")

\* C6: in a run in which nothing raises, results.sarif is written exactly
\* once, after every workflow file has been scanned, with the results of the
\* complete list of findings; the process then ends with status 0, whether
\* the list is empty or not; the first line printed states the number of
\* findings, or that there are none.
C6_ReportOnceThenSuccess ==
    /\ writes <= 1
    /\ writes = 1 => Written
    /\ Written =>
          /\ writes = 1
          /\ dirExists => (/\ issues = scanIssues
                           /\ [k \in 1..Len(opened) |-> opened[k].path] = EnumeratedPaths
                           /\ \A k \in 1..Len(opened) : ~opened[k].raised)
          /\ resultsFile.exists
          /\ resultsFile.text = json_dump(generate_sarif(issues))
          /\ ResultsOf(resultsFile.text) = dump_issues(issues)
    /\ pc = "exited" =>
          /\ exitStatus = 0
          /\ Len(stdout) >= 1
          /\ stdout[1] = (IF Len(issues) > 0
                          THEN "Found " \o ToString(Len(issues)) \o " issue(s)"
                          ELSE "No issues found")
    /\ exitStatus = 0 => pc = "exited"

C6_Witness ==
    /\ pc = "exited"
    /\ exitStatus = 0
    /\ writes = 1
    /\ Len(issues) = 2
    /\ Len(opened) = 2
    /\ stdout = <<"Found 2 issue(s)", "Generated results.sarif">>
    /\ ResultsOf(resultsFile.text) = dump_issues(issues)

\* C7: every report built has exactly one rule, and every result of it has
\* ruleIndex 0 and the id of that rule, github-actions/id-token-write.
C7_SingleRule ==
    \A d \in 1..Len(sarif) :
        LET rules == sarif[d].runs[1].tool.driver.rules
            results == sarif[d].runs[1].results
        IN  /\ Len(sarif[d].runs) = 1
            /\ Len(rules) = 1
            /\ rules[1].id = "github-actions/id-token-write"
            /\ \A k \in 1..Len(results) :
                  /\ results[k].ruleIndex = 0
                  /\ results[k].ruleId = rules[results[k].ruleIndex + 1].id

C7_Witness ==
    /\ Len(sarif) = 1
    /\ Len(sarif[1].runs[1].results) = 3
    /\ Len(sarif[1].runs[1].tool.driver.rules) = 1
    /\ \A k \in 1..3 : sarif[1].runs[1].results[k].ruleId = sarif[1].runs[1].tool.driver.rules[1].id

\* The results of the report, once it is built.
ReportResults == IF sarif = <<>> THEN <<>> ELSE sarif[1].runs[1].results

\* The entry e1 is enumerated before the entry e2.
EnumeratedBefore(e1, e2) ==
    \/ listing[e1].ext = "yml" /\ listing[e2].ext = "yaml"
    \/ listing[e1].ext = listing[e2].ext /\ e1 < e2

\* C8: the results of the report are in file-enumeration-then-line order:
\* of two results, the earlier names a file enumerated earlier (.yml files
\* before .yaml files, each group in the order of the listing) or the same
\* file at a smaller line; two files with one and two matching lines give
\* three results.
C8_FileThenLineOrder ==
    /\ \A k, l \in 1..Len(ReportResults) :
          k < l =>
              IF Uri(ReportResults[k]) = Uri(ReportResults[l])
              THEN Region(ReportResults[k]).startLine < Region(ReportResults[l]).startLine
              ELSE EnumeratedBefore(EntryOf(ReportResults[k]), EntryOf(ReportResults[l]))
    /\ pc \in {"write", "written", "exited", "raised_write"} =>
          \/ Len(ReportResults) = 3
          \/ Cardinality(WorkflowEntries) # 2
          \/ {Matches(listing[e]) : e \in WorkflowEntries} # {1, 2}

C8_Witness ==
    /\ pc = "exited"
    /\ Len(listing) = 2
    /\ listing[1].ext = "yaml"
    /\ listing[2].ext = "yml"
    /\ Matches(listing[1]) = 1
    /\ Matches(listing[2]) = 2
    /\ Len(ReportResults) = 3
    /\ Uri(ReportResults[1]) = ".github/workflows/deploy.yml"
    /\ Uri(ReportResults[2]) = ".github/workflows/deploy.yml"
    /\ Uri(ReportResults[3]) = ".github/workflows/release.yaml"
    /\ Region(ReportResults[1]).startLine < Region(ReportResults[2]).startLine

\* C9: a second run on the unchanged directory that ends with status 0
\* after a first run that ended with status 0 leaves results.sarif exactly
\* as the first run left it; and whatever the file held when a run started
\* (nothing, a report, a truncated report), a written report is the dump of
\* the report built from the run's list of findings and nothing else.
C9_SecondRunSameReport ==
    /\ (run = "second" /\ pc = "exited" /\ firstRun.exitStatus = 0)
          => resultsFile = firstRun.report
    /\ Written => resultsFile.text = json_dump(generate_sarif(issues))

C9_Witness ==
    /\ run = "second"
    /\ pc = "exited"
    /\ firstRun.exitStatus = 0
    /\ Len(issues) >= 1
    /\ startReport = firstRun.report
    /\ resultsFile = firstRun.report

\* C10: when opening or reading a workflow file raises, that file is the
\* last one opened in the run, the process ends there with a status that is
\* not 0, nothing has been printed, no report is built from the findings of
\* the earlier files, and results.sarif is not written: it is as it was when
\* the run started.
C10_ReadErrorAborts ==
    \A k \in 1..Len(opened) :
        opened[k].raised =>
            /\ k = Len(opened)
            /\ pc = "raised_read"
            /\ exitStatus = 1
            /\ writes = 0
            /\ resultsFile = startReport
            /\ scanIssues = <<>>
            /\ issues = <<>>
            /\ sarif = <<>>
            /\ stdout = <<>>

C10_Witness ==
    /\ pc = "raised_read"
    /\ exitStatus = 1
    /\ Len(files) = 2
    /\ Len(opened) = 2
    /\ ~opened[1].raised
    /\ opened[2].raised
    /\ \E e \in WorkflowEntries :
          PathOf(listing[e]) = opened[1].path /\ Matches(listing[e]) >= 1
    /\ startReport = StaleReport
    /\ resultsFile = StaleReport

====
